---- MODULE Spec2Model ----
(***************************************************************************)
(* AudioSourceComponent (src/framework/components/audio-source/            *)
(* component.js): the asset-load coordinator (loadAudioSourceAssets) and   *)
(* the playback-channel state machine (play/pause/unpause/stop, the        *)
(* set_* handlers, onEnable/onDisable, the asset event handlers).          *)
(*                                                                         *)
(* Every handler runs to completion on one event queue, so each handler    *)
(* (with every call it makes) is one action.  Handlers are written as      *)
(* operators from a world record to a world record, named after the        *)
(* methods of the source; an action applies one of them to the current     *)
(* state.                                                                  *)
(***************************************************************************)
EXTENDS Integers, Sequences, FiniteSets, TLC

\* ------------------------------------------------------------------ bounds
\* number of loadAudioSourceAssets calls (batches) the model follows
MaxBatches == 2
\* longest asset-id list given to the component
MaxLen == 2
\* pool of backend channel identities
MaxChans == 2
\* number of failed loads the model follows
MaxFails == 1

\* asset ids; an asset's name is modelled by its id
Assets == {"a", "b"}
\* decoded audio resources; 0 is "no resource" (null / undefined, falsy)
Resources == {1, 2}
\* the resource a load delivers, and the one a later change puts in its place
Loaded == {1}
Changed == {2}
\* null for currentSource
None == "none"

\* the parameters the component mirrors onto its channel, those that only a
\* positional channel has, and the values a parameter takes (two are enough to
\* tell a changed value from an unchanged one); 0 is "the channel has no such parameter"
ParamNames == {"loop", "volume", "pitch", "minDistance", "maxDistance", "rollOffFactor", "distanceModel"}
DistanceParams == {"minDistance", "maxDistance", "rollOffFactor", "distanceModel"}
ParamValues == {1, 2}

Batches == 1..MaxBatches
Chans == 1..MaxChans

\* all id lists of length 0..MaxLen
IdLists == UNION {[1..n -> Assets] : n \in 0..MaxLen}

VARIABLES
    enabled,        \* data.enabled (component)
    entityEnabled,  \* entity.enabled
    initialized,    \* system.initialized
    activate,       \* data.activate
    is3d,           \* data['3d']
    params,         \* data.loop, data.volume, ... data.distanceModel
    assets,         \* data.assets (list of ids)
    sourcesRef,     \* which object data.sources refers to: 0 the initial {}, b the closure object of batch b
    objs,           \* the sources objects: objs[o][name] = resource, 0 when the key is missing
    currentSource,  \* data.currentSource
    channel,        \* data.channel: a channel identity, 0 for null
    chans,          \* the backend's channels
    chanPar,        \* the parameters of the backend's channels
    reg,            \* the asset registry: per id, the handle's state
    changeL,        \* per handle, number of (onAssetChanged, this) listeners of 'change'
    removeL,        \* per handle, number of (onAssetRemoved, this) listeners of 'remove'
    errorL,         \* per handle, the _error closures listening to 'error' (the batch of each)
    loadL,          \* per handle, the pending ready() callbacks (batch b, or 0 for the add:<id> one)
    addL,           \* per id, number of 'add:<id>' listeners on the registry
    nfail,          \* failed loads so far
    nb,             \* batches started so far
    bids,           \* per batch: ids
    cnt,            \* per batch: count
    bcur,           \* per batch: the closure's currentSource
    doneCount,      \* history: how often the batch's _done ran
    got,            \* history: per batch, the resource each ready callback delivered
    errd,           \* history: per batch, how often _error ran for each asset
    pres,           \* history: per batch, the ids found in the registry when the batch started
    fin,            \* history: per batch, what _done committed
    last,           \* history: the event handler the latest step ran, if it ran one
    calls           \* history: the set* calls the latest parameter setter made on the channel

vars == <<enabled, entityEnabled, initialized, activate, is3d, assets, sourcesRef, objs,
          currentSource, channel, chans, reg, changeL, removeL, errorL, loadL, addL,
          nfail, nb, bids, cnt, bcur, doneCount, got, errd, pres, fin, last,
          params, chanPar, calls>>

\* the state as one record, the argument and the result of every handler
World == [enabled |-> enabled, entityEnabled |-> entityEnabled, initialized |-> initialized,
          activate |-> activate, is3d |-> is3d, assets |-> assets, sourcesRef |-> sourcesRef,
          objs |-> objs, currentSource |-> currentSource, channel |-> channel, chans |-> chans,
          reg |-> reg, changeL |-> changeL, removeL |-> removeL, errorL |-> errorL,
          loadL |-> loadL, addL |-> addL, nfail |-> nfail, nb |-> nb, bids |-> bids, cnt |-> cnt, bcur |-> bcur,
          doneCount |-> doneCount, got |-> got, errd |-> errd, pres |-> pres, fin |-> fin,
          params |-> params, chanPar |-> chanPar, calls |-> calls]

\* no event handler, and the handler op run for asset a
NoHandler == [op |-> None, asset |-> None]
Handler(op, a) == [op |-> op, asset |-> a]

\* the step whose handlers leave the world w; h is the event handler it ran
Handled(w, h) ==
    /\ last' = h
    /\ enabled' = w.enabled /\ entityEnabled' = w.entityEnabled
    /\ initialized' = w.initialized /\ activate' = w.activate /\ is3d' = w.is3d
    /\ assets' = w.assets /\ sourcesRef' = w.sourcesRef /\ objs' = w.objs
    /\ currentSource' = w.currentSource /\ channel' = w.channel /\ chans' = w.chans
    /\ reg' = w.reg /\ changeL' = w.changeL /\ removeL' = w.removeL /\ errorL' = w.errorL
    /\ loadL' = w.loadL /\ addL' = w.addL /\ nfail' = w.nfail /\ nb' = w.nb /\ bids' = w.bids /\ cnt' = w.cnt
    /\ bcur' = w.bcur /\ doneCount' = w.doneCount /\ got' = w.got /\ errd' = w.errd
    /\ pres' = w.pres /\ fin' = w.fin
    /\ params' = w.params /\ chanPar' = w.chanPar /\ calls' = w.calls

Becomes(w) == Handled(w, NoHandler)

\* a handle of the registry: never registered, registered, or removed for good
Absent == [present |-> FALSE, removed |-> FALSE, loading |-> FALSE, res |-> 0]
Registered == [present |-> TRUE, removed |-> FALSE, loading |-> FALSE, res |-> 0]
Removed == [present |-> FALSE, removed |-> TRUE, loading |-> FALSE, res |-> 0]

NoSources == [a \in Assets |-> 0]
NoChannel == [live |-> FALSE, paused |-> FALSE, suspended |-> FALSE, positional |-> FALSE, res |-> 0]
NoPar == [k \in ParamNames |-> 0]
NoFin == [done |-> FALSE, cur |-> None, srcs |-> NoSources, got |-> NoSources]

\* data.sources as the handlers read it
Sources(w) == w.objs[w.sourcesRef]

\* ------------------------------------------------------- audio backend
\* manager.playSound / playSound3d: a new channel, playing, not suspended
FreeChans(w) == {c \in Chans : ~w.chans[c].live}
NewChan(w) == IF FreeChans(w) = {} THEN MaxChans
              ELSE CHOOSE c \in FreeChans(w) : \A d \in FreeChans(w) : c <= d

\* the channel takes its parameters from the component data it is given; the
\* distance parameters exist on a positional channel only
playSound(w, res, positional) ==
    [w EXCEPT !.chans[NewChan(w)] =
        [live |-> TRUE, paused |-> FALSE, suspended |-> FALSE, positional |-> positional, res |-> res],
              !.chanPar[NewChan(w)] =
        [k \in ParamNames |-> IF k \in DistanceParams /\ ~positional THEN 0 ELSE w.params[k]]]

\* ------------------------------------------------------- channel controller
stop(w) ==
    IF w.channel # 0
    THEN [w EXCEPT !.chans[w.channel] = NoChannel, !.chanPar[w.channel] = NoPar, !.channel = 0]
    ELSE w

pause(w) ==
    IF w.channel # 0
    THEN [w EXCEPT !.chans[w.channel].paused = TRUE]
    ELSE w

unpause(w) ==
    IF w.channel # 0 /\ w.chans[w.channel].paused
    THEN [w EXCEPT !.chans[w.channel].paused = FALSE]
    ELSE w

\* sources[name] is truthy
HasSource(w, name) == name \in Assets /\ Sources(w)[name] # 0

\* play without line 71-74: the live channel is not stopped first
playNoStop(w, name) ==
    IF ~w.enabled \/ ~w.entityEnabled THEN w
    ELSE IF HasSource(w, name)
         THEN LET c == NewChan(w)
              IN  [playSound(w, Sources(w)[name], w.is3d)
                     EXCEPT !.currentSource = name, !.channel = c]
         ELSE w

\* play without line 67-69: the component's and the entity's enabled flags are not looked at
playWhileDisabled(w, name) ==
    LET w1 == IF w.channel # 0 THEN stop(w) ELSE w
    IN  IF HasSource(w1, name)
        THEN LET c == NewChan(w1)
             IN  [playSound(w1, Sources(w1)[name], w1.is3d)
                    EXCEPT !.currentSource = name, !.channel = c]
        ELSE w1

\* play with the lookup of line 80 before the stop of line 71-74: a name without
\* a source leaves the live channel playing
playStopsIfSource(w, name) ==
    IF ~w.enabled \/ ~w.entityEnabled THEN w
    ELSE IF HasSource(w, name)
         THEN LET w1 == IF w.channel # 0 THEN stop(w) ELSE w
                  c == NewChan(w1)
              IN  [playSound(w1, Sources(w1)[name], w1.is3d)
                     EXCEPT !.currentSource = name, !.channel = c]
         ELSE w

\* play without the branch of line 81 and 85: playSound whatever data['3d'] says
playNonPositional(w, name) ==
    IF ~w.enabled \/ ~w.entityEnabled THEN w
    ELSE LET w1 == IF w.channel # 0 THEN stop(w) ELSE w
         IN  IF HasSource(w1, name)
             THEN LET c == NewChan(w1)
                  IN  [playSound(w1, Sources(w1)[name], FALSE)
                         EXCEPT !.currentSource = name, !.channel = c]
             ELSE w1

play(w, name) ==
    IF ~w.enabled \/ ~w.entityEnabled THEN w
    ELSE LET w1 == IF w.channel # 0 THEN stop(w) ELSE w
         IN  IF HasSource(w1, name)
             THEN LET c == NewChan(w1)
                  IN  [playSound(w1, Sources(w1)[name], w1.is3d)
                         EXCEPT !.currentSource = name, !.channel = c]
             ELSE w1

\* ------------------------------------------------------- asset registry
\* registry.load(asset): starts a load unless one is running or the asset is loaded
load(w, a) ==
    IF w.reg[a].present /\ w.reg[a].res = 0 /\ ~w.reg[a].loading
    THEN [w EXCEPT !.reg[a].loading = TRUE]
    ELSE w

\* handler.off(name, callback, scope) removes every matching listener, on() adds one
off(n) == 0
on(n) == n + 1
offError(l, b) == SelectSeq(l, LAMBDA x : x # b)
onError(l, b) == Append(l, b)

\* ------------------------------------------------------- lifecycle
RECURSIVE loadMissing(_, _, _)
loadMissing(w, list, i) ==
    IF i > Len(list) THEN w
    ELSE loadMissing(load(w, list[i]), list, i + 1)

\* onEnable without the `&& !this.channel` of line 286: autoplay restarts a live channel
onEnableRestarts(w) ==
    LET w1 == loadMissing(w, w.assets, 1)
    IN  IF w1.initialized
        THEN IF w1.activate
             THEN play(w1, w1.currentSource)
             ELSE unpause(w1)
        ELSE w1

onEnable(w) ==
    LET w1 == loadMissing(w, w.assets, 1)
    IN  IF w1.initialized
        THEN IF w1.activate /\ w1.channel = 0
             THEN play(w1, w1.currentSource)
             ELSE unpause(w1)
        ELSE w1

onDisable(w) == pause(w)

\* ------------------------------------------------------- resource resolver
\* _done that a later batch cancels: once a batch started later has committed,
\* the older batch's _done commits nothing
_doneUnlessSuperseded(w, b) ==
    IF \E b2 \in Batches : b2 > b /\ w.fin[b2].done
    THEN [w EXCEPT !.doneCount[b] = @ + 1,
                   !.fin[b] = [done |-> TRUE, cur |-> w.currentSource,
                               srcs |-> Sources(w), got |-> w.got[b]]]
    ELSE LET w1 == [w EXCEPT !.sourcesRef = b,
                             !.currentSource = w.bcur[b],
                             !.doneCount[b] = @ + 1]
             w2 == [w1 EXCEPT !.fin[b] = [done |-> TRUE, cur |-> w1.currentSource,
                                          srcs |-> Sources(w1), got |-> w1.got[b]]]
         IN  IF w2.enabled /\ w2.activate /\ w.bcur[b] # None
             THEN onEnable(w2)
             ELSE w2

\* the closure _done of batch b
_done(w, b) ==
    LET w1 == [w EXCEPT !.sourcesRef = b,
                        !.currentSource = w.bcur[b],
                        !.doneCount[b] = @ + 1]
        w2 == [w1 EXCEPT !.fin[b] = [done |-> TRUE, cur |-> w1.currentSource,
                                     srcs |-> Sources(w1), got |-> w1.got[b]]]
    IN  IF w2.enabled /\ w2.activate /\ w.bcur[b] # None
        THEN onEnable(w2)
        ELSE w2

\* the closure _error of batch b, run for an 'error' event of asset a
_error(w, b, a) ==
    [w EXCEPT !.cnt[b] = @ - 1, !.errd[b][a] = @ + 1]

\* the ready callback storing into data.sources instead of the batch's own object
readyCallbackToData(w, b, a) ==
    LET w1 == [w EXCEPT !.objs[w.sourcesRef][a] = w.reg[a].res,
                        !.got[b][a] = w.reg[a].res,
                        !.cnt[b] = @ - 1]
    IN  IF w1.cnt[b] = 0 THEN _done(w1, b) ELSE w1

\* the ready callback of batch b, run for asset a
readyCallback(w, b, a) ==
    LET w1 == [w EXCEPT !.objs[b][a] = w.reg[a].res,
                        !.got[b][a] = w.reg[a].res,
                        !.cnt[b] = @ - 1]
    IN  IF w1.cnt[b] = 0 THEN _done(w1, b) ELSE w1

\* the add:<id> callback taking the asset for the current source when there is none
addedCallbackSetsCurrent(w, a) ==
    [w EXCEPT !.objs[w.sourcesRef][a] = w.reg[a].res,
              !.currentSource = IF @ = None THEN a ELSE @]

\* the ready callback of the add:<id> listener
addedCallback(w, a) ==
    [w EXCEPT !.objs[w.sourcesRef][a] = w.reg[a].res]

\* a ready callback: of batch cb, or (cb = 0) of the add:<id> listener
callback(w, cb, a) ==
    IF cb = 0 THEN addedCallback(w, a) ELSE readyCallback(w, cb, a)

\* asset.ready(callback): at once when the resource is there, else once on 'load'
ready(w, a, cb) ==
    IF w.reg[a].res # 0
    THEN callback(w, cb, a)
    ELSE [w EXCEPT !.loadL[a] = Append(@, cb)]

\* the add:<id> listener of the registry
onAdded(w, a) ==
    LET w1 == ready(w, a, 0)
    IN  IF w1.reg[a].res = 0 THEN load(w1, a) ELSE w1

\* one turn of assets.forEach for batch b
visit(w, b, a) ==
    IF w.reg[a].present
    THEN LET w1 == [w EXCEPT !.bcur[b] = IF @ = None THEN a ELSE @,
                             !.pres[b] = @ \cup {a},
                             !.changeL[a] = on(off(@)),
                             !.removeL[a] = on(off(@)),
                             !.errorL[a] = onError(offError(@, b), b)]
             w2 == ready(w1, a, b)
         IN  IF w2.reg[a].res = 0 /\ w2.enabled /\ w2.entityEnabled
             THEN load(w2, a)
             ELSE w2
    ELSE LET w1 == [w EXCEPT !.cnt[b] = @ - 1]
             w2 == IF w1.cnt[b] = 0 THEN _done(w1, b) ELSE w1
         IN  [w2 EXCEPT !.addL[a] = @ + 1]

RECURSIVE forEach(_, _, _, _)
forEach(w, b, ids, i) ==
    IF i > Len(ids) THEN w
    ELSE forEach(visit(w, b, ids[i]), b, ids, i + 1)

\* loadAudioSourceAssets finalizing at once when there is nothing to wait for
loadAudioSourceAssetsEmptyDone(w, ids) ==
    LET b == w.nb + 1
        w1 == [w EXCEPT !.nb = b, !.bids[b] = ids, !.cnt[b] = Len(ids)]
    IN  IF Len(ids) = 0 THEN _done(w1, b) ELSE forEach(w1, b, ids, 1)

loadAudioSourceAssets(w, ids) ==
    LET b == w.nb + 1
        w1 == [w EXCEPT !.nb = b, !.bids[b] = ids, !.cnt[b] = Len(ids)]
    IN  forEach(w1, b, ids, 1)

\* ------------------------------------------------------- handlers of the component
inTools == FALSE

IndexOf(list, x) == \E i \in 1..Len(list) : list[i] = x

RECURSIVE unsubscribeOld(_, _, _)
unsubscribeOld(w, old, i) ==
    IF i > Len(old) THEN w
    ELSE LET a == old[i]
             w1 == IF w.reg[a].present
                   THEN LET w0 == [w EXCEPT !.changeL[a] = off(@), !.removeL[a] = off(@)]
                        IN  IF w0.currentSource = a THEN stop(w0) ELSE w0
                   ELSE w
         IN  unsubscribeOld(w1, old, i + 1)

newAssets(old, new) == SelectSeq(new, LAMBDA x : ~IndexOf(old, x))

onSetAssets(w, oldValue, newValue) ==
    LET w1 == unsubscribeOld(w, oldValue, 1)
        na == newAssets(oldValue, newValue)
    IN  IF ~inTools /\ Len(na) > 0
        THEN loadAudioSourceAssets(w1, na)
        ELSE w1

\* onAssetChanged without line 170-172: a paused channel is restarted playing
onAssetChangedNoPause(w, a, newValue) ==
    LET w1 == [w EXCEPT !.objs[w.sourcesRef][a] = newValue]
    IN  IF w1.currentSource = a /\ w1.channel # 0
        THEN play(w1, a)
        ELSE w1

onAssetChanged(w, a, newValue) ==
    LET w1 == [w EXCEPT !.objs[w.sourcesRef][a] = newValue]
    IN  IF w1.currentSource = a /\ w1.channel # 0
        THEN IF w1.chans[w1.channel].paused
             THEN pause(play(w1, a))
             ELSE play(w1, a)
        ELSE w1

onAssetRemoved(w, a) ==
    LET w1 == [w EXCEPT !.removeL[a] = off(@)]
    IN  IF Sources(w1)[a] # 0
        THEN LET w2 == [w1 EXCEPT !.objs[w1.sourcesRef][a] = 0]
             IN  IF w2.currentSource = a
                 THEN [stop(w2) EXCEPT !.currentSource = None]
                 ELSE w2
        ELSE w1

\* channel.setLoop(v), setVolume(v), ...: the call sets parameter k of the channel
setOnChannel(w, k, v) ==
    [w EXCEPT !.chanPar[w.channel][k] = v,
              !.calls = Append(@, [param |-> k, value |-> v])]

\* this.channel instanceof Channel3d
IsChannel3d(w) == w.channel # 0 /\ w.chans[w.channel].positional

\* onSetLoop forwarding the value also when it has not changed
onSetLoopAlways(w, oldValue, newValue) ==
    IF w.channel # 0 THEN setOnChannel(w, "loop", newValue) ELSE w

onSetLoop(w, oldValue, newValue) ==
    IF oldValue # newValue /\ w.channel # 0
    THEN setOnChannel(w, "loop", newValue)
    ELSE w

onSetVolume(w, oldValue, newValue) ==
    IF oldValue # newValue /\ w.channel # 0
    THEN setOnChannel(w, "volume", newValue)
    ELSE w

onSetPitch(w, oldValue, newValue) ==
    IF oldValue # newValue /\ w.channel # 0
    THEN setOnChannel(w, "pitch", newValue)
    ELSE w

onSetMaxDistance(w, oldValue, newValue) ==
    IF oldValue # newValue /\ IsChannel3d(w)
    THEN setOnChannel(w, "maxDistance", newValue)
    ELSE w

\* onSetMinDistance testing this.channel where the source tests instanceof Channel3d
onSetMinDistanceAnyChannel(w, oldValue, newValue) ==
    IF oldValue # newValue /\ w.channel # 0
    THEN setOnChannel(w, "minDistance", newValue)
    ELSE w

onSetMinDistance(w, oldValue, newValue) ==
    IF oldValue # newValue /\ IsChannel3d(w)
    THEN setOnChannel(w, "minDistance", newValue)
    ELSE w

onSetRollOffFactor(w, oldValue, newValue) ==
    IF oldValue # newValue /\ IsChannel3d(w)
    THEN setOnChannel(w, "rollOffFactor", newValue)
    ELSE w

onSetDistanceModel(w, oldValue, newValue) ==
    IF oldValue # newValue /\ IsChannel3d(w)
    THEN setOnChannel(w, "distanceModel", newValue)
    ELSE w

\* onSet3d without line 260-263: the flags are not put on the new channel
onSet3dNoFlags(w, oldValue, newValue) ==
    IF oldValue # newValue /\ w.initialized /\ w.currentSource # None
    THEN play(w, w.currentSource)
    ELSE w

onSet3d(w, oldValue, newValue) ==
    IF oldValue # newValue /\ w.initialized /\ w.currentSource # None
    THEN LET paused == IF w.channel # 0 THEN w.chans[w.channel].paused ELSE FALSE
             suspended == IF w.channel # 0 THEN w.chans[w.channel].suspended ELSE FALSE
             w1 == play(w, w.currentSource)
         IN  IF w1.channel # 0
             THEN [w1 EXCEPT !.chans[w1.channel].paused = paused,
                             !.chans[w1.channel].suspended = suspended]
             ELSE w1
    ELSE w

\* ------------------------------------------------------------------ Init
Init ==
    /\ enabled = TRUE /\ entityEnabled = TRUE /\ initialized = FALSE
    /\ activate = TRUE /\ is3d = TRUE
    /\ assets = <<>>
    /\ sourcesRef = 0
    /\ objs = [o \in 0..MaxBatches |-> NoSources]
    /\ currentSource = None
    /\ channel = 0
    /\ chans = [c \in Chans |-> NoChannel]
    /\ reg \in [Assets -> {Absent, Registered}]
    /\ changeL = [a \in Assets |-> 0]
    /\ removeL = [a \in Assets |-> 0]
    /\ errorL = [a \in Assets |-> <<>>]
    /\ loadL = [a \in Assets |-> <<>>]
    /\ addL = [a \in Assets |-> 0]
    /\ nfail = 0
    /\ nb = 0
    /\ bids = [b \in Batches |-> <<>>]
    /\ cnt = [b \in Batches |-> 0]
    /\ bcur = [b \in Batches |-> None]
    /\ doneCount = [b \in Batches |-> 0]
    /\ got = [b \in Batches |-> NoSources]
    /\ errd = [b \in Batches |-> [a \in Assets |-> 0]]
    /\ pres = [b \in Batches |-> {}]
    /\ fin = [b \in Batches |-> NoFin]
    /\ last = NoHandler
    /\ params = [k \in ParamNames |-> 1]
    /\ chanPar = [c \in Chans |-> NoPar]
    /\ calls = <<>>

\* ------------------------------------------------------- events of an asset handle
\* handle.fire('load'): the once-listeners installed by ready(), in order
RECURSIVE fireLoad(_, _, _, _)
fireLoad(w, a, cbs, i) ==
    IF i > Len(cbs) THEN w
    ELSE fireLoad(callback(w, cbs[i], a), a, cbs, i + 1)

\* handle.fire('error'): every _error closure listening
RECURSIVE fireError(_, _, _, _)
fireError(w, a, ls, i) ==
    IF i > Len(ls) THEN w
    ELSE fireError(_error(w, ls[i], a), a, ls, i + 1)

\* handle.fire('change', asset, 'resource', newValue, oldValue): n listeners
RECURSIVE fireChange(_, _, _, _)
fireChange(w, a, newValue, n) ==
    IF n = 0 THEN w
    ELSE fireChange(onAssetChanged(w, a, newValue), a, newValue, n - 1)

\* handle.fire('remove', asset): n listeners
RECURSIVE fireRemove(_, _, _)
fireRemove(w, a, n) ==
    IF n = 0 THEN w
    ELSE fireRemove(onAssetRemoved(w, a), a, n - 1)

\* registry.fire('add:' + id, asset): n listeners
RECURSIVE fireAdd(_, _, _)
fireAdd(w, a, n) ==
    IF n = 0 THEN w
    ELSE fireAdd(onAdded(w, a), a, n - 1)


\* ------------------------------------------------------- actions: the registry
\* a running load ends with the resource r
LoadSucceeds(a, r) ==
    /\ reg[a].present /\ reg[a].loading
    /\ LET w1 == [World EXCEPT !.reg[a] = [@ EXCEPT !.res = r, !.loading = FALSE],
                               !.loadL[a] = <<>>]
       IN  Becomes(fireLoad(w1, a, loadL[a], 1))

\* a running load fails
LoadFails(a) ==
    /\ reg[a].present /\ reg[a].loading
    /\ nfail < MaxFails
    /\ LET w1 == [World EXCEPT !.reg[a].loading = FALSE, !.nfail = @ + 1]
       IN  Becomes(fireError(w1, a, errorL[a], 1))

\* the resource of a loaded asset is replaced
AssetChanged(a, r) ==
    /\ reg[a].present /\ reg[a].res # 0 /\ reg[a].res # r
    /\ LET w1 == [World EXCEPT !.reg[a].res = r]
       IN  Handled(fireChange(w1, a, r, changeL[a]),
                   IF changeL[a] > 0 THEN Handler("onAssetChanged", a) ELSE NoHandler)

\* the asset is removed from the registry; its handle is dropped with its listeners
AssetRemoved(a) ==
    /\ reg[a].present
    /\ LET w1 == [World EXCEPT !.reg[a] = Removed]
           w2 == fireRemove(w1, a, removeL[a])
       IN  Handled([w2 EXCEPT !.changeL[a] = 0, !.removeL[a] = 0,
                              !.errorL[a] = <<>>, !.loadL[a] = <<>>],
                   IF removeL[a] > 0 THEN Handler("onAssetRemoved", a) ELSE NoHandler)

\* an asset with this id is added to the registry
AssetAdded(a) ==
    /\ ~reg[a].present /\ ~reg[a].removed
    /\ LET w1 == [World EXCEPT !.reg[a] = Registered]
       IN  Becomes(fireAdd(w1, a, addL[a]))

\* a new asset is registered under the id of one that was removed: a fresh handle
\* (no resource, no listeners); removed stays set to tell the id was used before
AssetReadded(a) ==
    /\ ~reg[a].present /\ reg[a].removed
    /\ LET w1 == [World EXCEPT !.reg[a] = [Registered EXCEPT !.removed = TRUE]]
       IN  Handled(fireAdd(w1, a, addL[a]),
                   IF addL[a] > 0 THEN Handler("onAdded", a) ELSE NoHandler)

\* some other part of the application asks for the asset to be loaded
RegistryLoad(a) ==
    /\ reg[a].present /\ reg[a].res = 0 /\ ~reg[a].loading
    /\ Becomes(load(World, a))

\* ------------------------------------------------------- actions: the backend
\* the audio context is suspended or resumed under a live channel
BackendSuspend(c) ==
    /\ chans[c].live
    /\ Becomes([World EXCEPT !.chans[c].suspended = ~@])

\* ------------------------------------------------------- actions: the component
Play(name) == Becomes(play(World, name))
Stop == Becomes(stop(World))
Pause == Becomes(pause(World))
Unpause == Becomes(unpause(World))
OnEnable == Becomes(onEnable(World))
OnDisable == Becomes(onDisable(World))

\* component.assets = newValue: the accessor stores the value and fires set_assets
SetAssets(newValue) ==
    /\ Len(newAssets(assets, newValue)) > 0 => nb < MaxBatches
    /\ Becomes(onSetAssets([World EXCEPT !.assets = newValue], assets, newValue))

LoadAudioSourceAssets(ids) ==
    /\ nb < MaxBatches
    /\ Becomes(loadAudioSourceAssets(World, ids))

\* component['3d'] = newValue
Set3d(newValue) ==
    Handled(onSet3d([World EXCEPT !.is3d = newValue], is3d, newValue),
            IF newValue # is3d THEN Handler("onSet3d", None) ELSE NoHandler)

\* component.loop = newValue, ...: the accessor stores the value and fires set_<name>
Stored(k, newValue) == [World EXCEPT !.params[k] = newValue, !.calls = <<>>]

SetLoop(newValue) ==
    Becomes(onSetLoop(Stored("loop", newValue), params["loop"], newValue))
SetVolume(newValue) ==
    Becomes(onSetVolume(Stored("volume", newValue), params["volume"], newValue))
SetPitch(newValue) ==
    Becomes(onSetPitch(Stored("pitch", newValue), params["pitch"], newValue))
SetMinDistance(newValue) ==
    Becomes(onSetMinDistance(Stored("minDistance", newValue), params["minDistance"], newValue))
SetMaxDistance(newValue) ==
    Becomes(onSetMaxDistance(Stored("maxDistance", newValue), params["maxDistance"], newValue))
SetRollOffFactor(newValue) ==
    Becomes(onSetRollOffFactor(Stored("rollOffFactor", newValue), params["rollOffFactor"], newValue))
SetDistanceModel(newValue) ==
    Becomes(onSetDistanceModel(Stored("distanceModel", newValue), params["distanceModel"], newValue))

SetActivate(newValue) ==
    Becomes([World EXCEPT !.activate = newValue])

\* component.enabled = newValue: onEnable / onDisable when the entity is enabled
SetEnabled(newValue) ==
    /\ newValue # enabled
    /\ LET w1 == [World EXCEPT !.enabled = newValue]
       IN  Becomes(IF ~entityEnabled THEN w1
                   ELSE IF newValue THEN onEnable(w1) ELSE onDisable(w1))

\* entity.enabled = newValue: onEnable / onDisable of its enabled components
SetEntityEnabled(newValue) ==
    /\ newValue # entityEnabled
    /\ LET w1 == [World EXCEPT !.entityEnabled = newValue]
       IN  Becomes(IF ~enabled THEN w1
                   ELSE IF newValue THEN onEnable(w1) ELSE onDisable(w1))

\* system.onInitialize: autoplay, then initialized
Initialize ==
    /\ ~initialized
    /\ LET w1 == IF entityEnabled /\ enabled /\ activate
                 THEN play(World, currentSource)
                 ELSE World
       IN  Becomes([w1 EXCEPT !.initialized = TRUE])

\* ------------------------------------------------------- specifications
\* The resolver and its environment: batches over every id list, the registry's
\* events, and the component switched on and off around them.
NextResolver ==
    \/ \E l \in IdLists : LoadAudioSourceAssets(l)
    \/ \E v \in BOOLEAN : SetEnabled(v)
    \/ Initialize
    \/ \E a \in Assets, r \in Loaded : LoadSucceeds(a, r)
    \/ \E a \in Assets : LoadFails(a)
    \/ \E a \in Assets, r \in Changed : AssetChanged(a, r)
    \/ \E a \in Assets : AssetRemoved(a)
    \/ \E a \in Assets : AssetAdded(a)
    \/ \E a \in Assets : RegistryLoad(a)

SpecResolver == Init /\ [][NextResolver]_vars

\* The channel controller and its environment: every operation of the component
\* on the channel, the backend, and batches over the whole asset list.
NextChannel ==
    \/ \E name \in Assets : Play(name)
    \/ Stop
    \/ Pause
    \/ Unpause
    \/ OnEnable
    \/ OnDisable
    \/ \E v \in BOOLEAN : Set3d(v)
    \/ \E v \in BOOLEAN : SetActivate(v)
    \/ \E v \in BOOLEAN : SetEnabled(v)
    \/ \E v \in BOOLEAN : SetEntityEnabled(v)
    \/ Initialize
    \/ \E c \in Chans : BackendSuspend(c)
    \/ LoadAudioSourceAssets(<<"a", "b">>)
    \/ \E a \in Assets, r \in Loaded : LoadSucceeds(a, r)
    \/ \E a \in Assets : LoadFails(a)
    \/ \E a \in Assets, r \in Changed : AssetChanged(a, r)
    \/ \E a \in Assets : AssetRemoved(a)

SpecChannel == Init /\ [][NextChannel]_vars

\* The registry's side of the resolver: batches over every id list, and assets
\* registered, loaded, removed and registered again under the same id.
NextRegistry ==
    \/ \E l \in IdLists : LoadAudioSourceAssets(l)
    \/ \E a \in Assets, r \in Resources : LoadSucceeds(a, r)
    \/ \E a \in Assets : AssetRemoved(a)
    \/ \E a \in Assets : AssetAdded(a)
    \/ \E a \in Assets : AssetReadded(a)

SpecRegistry == Init /\ [][NextRegistry]_vars

\* The asset list of the component replaced by every id list, with the loads
\* and the playback this starts.
NextAssets ==
    \/ \E l \in IdLists : SetAssets(l)
    \/ \E a \in Assets, r \in Loaded : LoadSucceeds(a, r)
    \/ \E a \in Assets : AssetRemoved(a)
    \/ \E v \in BOOLEAN : SetEnabled(v)
    \/ Initialize

SpecAssets == Init /\ [][NextAssets]_vars

\* The parameter setters around one asset played in both modes.
NextParams ==
    \/ \E v \in ParamValues : SetLoop(v)
    \/ \E v \in ParamValues : SetVolume(v)
    \/ \E v \in ParamValues : SetPitch(v)
    \/ \E v \in ParamValues : SetMinDistance(v)
    \/ \E v \in ParamValues : SetMaxDistance(v)
    \/ \E v \in ParamValues : SetRollOffFactor(v)
    \/ \E v \in ParamValues : SetDistanceModel(v)
    \/ \E v \in BOOLEAN : Set3d(v)
    \/ Initialize
    \/ Stop
    \/ LoadAudioSourceAssets(<<"a">>)
    \/ \E a \in Assets, r \in Loaded : LoadSucceeds(a, r)

SpecParams == Init /\ [][NextParams]_vars

\* ------------------------------------------------------- claims
Started == 1..nb

\* asset a of batch b has settled exactly once: one ready, or one error
SettledOnce(b, a) ==
    \/ got[b][a] # 0 /\ errd[b][a] = 0
    \/ got[b][a] = 0 /\ errd[b][a] = 1

\* C1: a batch over a non-empty id list whose present handles have each settled
\* once (ready or error, in any order) has run _done, and has run it exactly once.
C1_SettledBatchIsDone ==
    \A b \in Started :
        (bids[b] # <<>> /\ \A a \in pres[b] : SettledOnce(b, a)) => doneCount[b] = 1

\* the first id, in input order, whose ready callback has delivered a resource
RECURSIVE FirstResolved(_, _, _)
FirstResolved(ids, g, i) ==
    IF i > Len(ids) THEN None
    ELSE IF g[ids[i]] # 0 THEN ids[i]
    ELSE FirstResolved(ids, g, i + 1)

\* C2: what _done stores in currentSource is the first id in input order whose
\* asset resolved, and None when none did.
C2_CurrentIsFirstResolved ==
    \A b \in Started :
        fin[b].done => fin[b].cur = FirstResolved(bids[b], fin[b].got, 1)

\* C3: between handlers, a non-null currentSource has an entry in data.sources.
C3_CurrentHasSource ==
    currentSource # None => Sources(World)[currentSource] # 0

\* C4: every channel the backend created and that was not stopped is the one in
\* the component's channel slot (so at most one is live).
C4_OneLiveChannel ==
    \A c \in Chans : chans[c].live => channel = c

\* a paused channel restarted on a changed resource: a second channel took the slot
C4_Witness ==
    /\ channel # 0 /\ chans[channel].live
    /\ chans[channel].res \in Changed /\ chans[channel].paused

\* C5: a handle carries at most one listener of the component per event kind.
C5_OneListenerPerKind ==
    \A a \in Assets : changeL[a] <= 1 /\ removeL[a] <= 1 /\ Len(errorL[a]) <= 1

SourcesNow == objs[sourcesRef]

\* C6 as stated: a call with an empty id list runs _done before it returns and
\* leaves data.sources empty and currentSource null.
C6_EmptyCompletes ==
    [][LoadAudioSourceAssets(<<>>) =>
          /\ doneCount'[nb'] = 1
          /\ SourcesNow' = NoSources
          /\ currentSource' = None]_vars

\* C6 as amended: a call with an empty id list never runs _done; data.sources,
\* currentSource and the channel are what they were before the call.
C6_EmptyDoesNothing ==
    [][LoadAudioSourceAssets(<<>>) =>
          /\ doneCount' = doneCount /\ fin' = fin
          /\ SourcesNow' = SourcesNow
          /\ currentSource' = currentSource
          /\ channel' = channel /\ chans' = chans]_vars

\* an empty batch, started after a batch that finalized, that never finalized
\* itself and left the source and the map of the earlier batch in place
C6_Witness ==
    \E b \in Started :
        /\ bids[b] = <<>> /\ doneCount[b] = 0
        /\ \E b0 \in Started : b0 < b /\ fin[b0].done /\ sourcesRef = b0
        /\ currentSource # None /\ SourcesNow # NoSources

\* C7: the map _done commits holds, for every asset of the batch whose ready
\* callback ran, the resource it delivered, and nothing for any other name
\* (absent from the registry, or failed and never loaded).
C7_CommitIsResolved ==
    \A b \in Started :
        fin[b].done =>
            \A a \in Assets :
                /\ fin[b].srcs[a] = fin[b].got[a]
                /\ a \notin pres[b] => fin[b].srcs[a] = 0
                /\ (errd[b][a] > 0 /\ fin[b].got[a] = 0) => fin[b].srcs[a] = 0

\* a finalized batch with one asset that failed and one that loaded
C7_Witness ==
    \E b \in Started :
        /\ fin[b].done
        /\ \E x \in pres[b], y \in pres[b] :
              /\ errd[b][x] > 0 /\ fin[b].got[x] = 0
              /\ fin[b].got[y] # 0 /\ fin[b].srcs[y] # 0

\* C8: a remove event handled (the component listens) once a batch has finalized:
\* the asset's name is not a key of data.sources afterwards; if the asset is the
\* current source the channel is stopped, the slot is null and currentSource is
\* null; if not, the channel and currentSource are untouched.
C8_RemoveClearsSource ==
    [][\A a \in Assets :
          (removeL[a] > 0 /\ sourcesRef # 0 /\ AssetRemoved(a)) =>
              /\ SourcesNow'[a] = 0
              /\ IF currentSource = a
                 THEN /\ channel' = 0 /\ currentSource' = None
                      /\ channel # 0 => ~chans'[channel].live
                 ELSE /\ channel' = channel /\ chans' = chans
                      /\ currentSource' = currentSource]_vars

\* asset a has been delivered to a batch by its ready callback
Resolved(a) == \E b \in Started : got[b][a] # 0

\* C9 as stated: a change of the resource of a resolved asset, handled by the
\* component, puts the new resource in data.sources; if the asset is the current
\* source and a channel is live, a channel on the new resource is live afterwards,
\* paused iff the old one was.
C9_ChangeRestarts ==
    [][\A a \in Assets, r \in Changed :
          (changeL[a] > 0 /\ Resolved(a) /\ AssetChanged(a, r)) =>
              /\ SourcesNow'[a] = r
              /\ (currentSource = a /\ channel # 0) =>
                    /\ channel' # 0 /\ chans'[channel'].live
                    /\ chans'[channel'].res = r
                    /\ chans'[channel'].paused = chans[channel].paused]_vars

\* C9 as amended: the entry is updated in every case; the channel of the current
\* source is restarted on the new resource (same paused state, mode of data['3d'],
\* not suspended) only while the component and its entity are enabled; while one
\* of them is disabled, and for every other asset, the channel is left as it is.
C9_ChangeRestartsIfEnabled ==
    [][\A a \in Assets, r \in Changed :
          (changeL[a] > 0 /\ Resolved(a) /\ AssetChanged(a, r)) =>
              /\ SourcesNow'[a] = r
              /\ currentSource' = currentSource
              /\ IF currentSource = a /\ channel # 0 /\ enabled /\ entityEnabled
                 THEN /\ channel' # 0
                      /\ chans'[channel'] = [live |-> TRUE, paused |-> chans[channel].paused,
                                             suspended |-> FALSE, positional |-> is3d, res |-> r]
                      /\ channel' # channel => ~chans'[channel].live
                 ELSE channel' = channel /\ chans' = chans]_vars

\* the latest step was a change of the current source's resource, handled while
\* enabled, and the channel now plays the new resource, paused
C9_Witness ==
    /\ last = Handler("onAssetChanged", currentSource)
    /\ enabled /\ entityEnabled
    /\ channel # 0 /\ chans[channel].live /\ chans[channel].paused
    /\ chans[channel].res \in Changed /\ chans[channel].res = SourcesNow[currentSource]

\* C10 as stated: data['3d'] changed while the system is initialized and there is
\* a current source: a channel of the new mode is live afterwards and has the
\* paused and suspended flags of the channel before it (false, false if none).
C10_SwapRebuilds ==
    [][\A v \in BOOLEAN :
          (v # is3d /\ initialized /\ currentSource # None /\ Set3d(v)) =>
              /\ channel' # 0 /\ chans'[channel'].live
              /\ chans'[channel'].positional = v
              /\ chans'[channel'].paused = (channel # 0 /\ chans[channel].paused)
              /\ chans'[channel'].suspended = (channel # 0 /\ chans[channel].suspended)]_vars

\* C10 as amended: while the component and its entity are enabled and the current
\* source has an entry in data.sources, the channel is rebuilt in the new mode on
\* that entry with the flags of the channel before it (false, false if none);
\* while enabled and the current source has no entry, the old channel is stopped
\* and the slot is null; while one of them is disabled the channel, if any, stays
\* as it is, in its old mode.  currentSource is the same in every case.
C10_SwapRebuildsIfEnabled ==
    [][\A v \in BOOLEAN :
          (v # is3d /\ initialized /\ currentSource # None /\ Set3d(v)) =>
              /\ currentSource' = currentSource
              /\ IF enabled /\ entityEnabled
                 THEN IF SourcesNow[currentSource] # 0
                      THEN /\ channel' # 0
                           /\ chans'[channel'] =
                                 [live |-> TRUE,
                                  paused |-> (channel # 0 /\ chans[channel].paused),
                                  suspended |-> (channel # 0 /\ chans[channel].suspended),
                                  positional |-> v, res |-> SourcesNow[currentSource]]
                           /\ (channel # 0 /\ channel' # channel) => ~chans'[channel].live
                      ELSE /\ channel' = 0
                           /\ channel # 0 => ~chans'[channel].live
                 ELSE channel' = channel /\ chans' = chans]_vars

\* the latest step swapped the mode back to 3d while enabled, and the rebuilt
\* channel is paused and suspended: both flags came from the channel before it
C10_Witness ==
    /\ last = Handler("onSet3d", None)
    /\ enabled /\ entityEnabled /\ initialized /\ currentSource # None
    /\ is3d
    /\ channel # 0 /\ chans[channel].live /\ chans[channel].positional
    /\ chans[channel].paused /\ chans[channel].suspended

\* the names play can be called with: asset names and null
Names == Assets \cup {None}

\* a step puts a channel the backend did not have before in place c
\* (res and positional never change on a channel)
CreatedAt(c) ==
    /\ chans'[c].live
    /\ \/ ~chans[c].live
       \/ chans'[c].res # chans[c].res
       \/ chans'[c].positional # chans[c].positional

\* C11: while the component or its entity is disabled, play(name) returns the
\* state it was given, for every name (slot, channels, currentSource, data.sources
\* and everything else untouched); and no step creates a channel unless the
\* component and the entity are enabled when it ends.
C11_PlayDisabledNoOp ==
    [][/\ (~enabled \/ ~entityEnabled) => \A name \in Names : play(World, name) = World
       /\ (\E c \in Chans : CreatedAt(c)) => (enabled' /\ entityEnabled')]_vars

\* disabled with a paused channel on the current source, while the other asset
\* has a source too: play of either name would replace the channel if it acted
C11_Witness ==
    /\ ~enabled \/ ~entityEnabled
    /\ channel # 0 /\ chans[channel].live
    /\ currentSource \in Assets
    /\ \A a \in Assets : HasSource(World, a)

\* C12: on an enabled component of an enabled entity, play(name) for a name with
\* no entry in data.sources does what stop() does and nothing else: the channel
\* that was live is stopped, the slot is null, no channel is live, and
\* currentSource and data.sources are what they were.
C12_PlayMissingStops ==
    \A name \in Names :
        (enabled /\ entityEnabled /\ ~HasSource(World, name)) =>
            LET w == play(World, name)
            IN  /\ w = stop(World)
                /\ w.channel = 0
                /\ \A c \in Chans : ~w.chans[c].live
                /\ w.currentSource = currentSource
                /\ Sources(w) = SourcesNow

\* enabled, a channel live on the current source, and an asset name that has no
\* source: play of that name stops the channel and starts none
C12_Witness ==
    /\ enabled /\ entityEnabled
    /\ channel # 0 /\ chans[channel].live /\ ~chans[channel].paused
    /\ HasSource(World, currentSource)
    /\ \E name \in Assets : ~HasSource(World, name)

\* the channels of w are those of the current state but for the paused flag of
\* the channel in the slot, and the slot holds the same channel
SameChannelPaused(w, p) ==
    /\ w.channel = channel
    /\ w.chans = IF channel # 0 THEN [chans EXCEPT ![channel].paused = p] ELSE chans

\* C13: onDisable leaves the channel in the slot, paused, and changes nothing
\* else of it.  onEnable, from the current state and from the one onDisable
\* leaves, keeps a channel that is in the slot and only clears its paused flag;
\* with an empty slot it does what play(currentSource) does if activate is set
\* and the system is initialized, and leaves the slot empty if not.
C13_DisableEnableResumes ==
    LET d == onDisable(World)
        e == onEnable(World)
        de == onEnable(d)
    IN  /\ SameChannelPaused(d, TRUE)
        /\ d.currentSource = currentSource
        /\ channel # 0 =>
              /\ SameChannelPaused(e, IF initialized THEN FALSE ELSE chans[channel].paused)
              /\ SameChannelPaused(de, ~initialized)
              /\ e.currentSource = currentSource /\ de.currentSource = currentSource
        /\ channel = 0 =>
              /\ de = e
              /\ IF activate /\ initialized
                 THEN /\ e.chans = play(World, currentSource).chans
                      /\ e.channel = play(World, currentSource).channel
                 ELSE e.channel = 0 /\ e.chans = chans

\* between onDisable and onEnable: the component is disabled, activate is off,
\* and the channel in the slot is paused (and suspended, which a restart would clear)
C13_Witness ==
    /\ ~enabled /\ entityEnabled /\ initialized /\ ~activate
    /\ channel # 0 /\ chans[channel].live
    /\ chans[channel].paused /\ chans[channel].suspended

\* the batches whose _done runs in the step
Finalizing == {b \in Batches : doneCount'[b] > doneCount[b]}

\* C14: a step in which batches finalize ends with data.sources being the
\* sources object of one of them and currentSource being that batch's
\* currentSource, whichever batches had finalized before and whichever was
\* started last; a single finalizing batch is that one.
C14_LastFinalizeWins ==
    [][Finalizing # {} =>
          \E b \in Finalizing :
              /\ sourcesRef' = b
              /\ currentSource' = bcur'[b]
              /\ fin'[b].cur = bcur'[b] /\ fin'[b].srcs = got'[b]]_vars

\* batch 1 finalized after batch 2 did: data.sources is the object of batch 1 and
\* a source that batch 2 had committed is not in it
C14_Witness ==
    /\ nb = 2 /\ fin[1].done /\ fin[2].done
    /\ sourcesRef = 1 /\ currentSource = fin[1].cur
    /\ fin[1].cur # fin[2].cur
    /\ \E a \in Assets : fin[2].srcs[a] # 0 /\ SourcesNow[a] = 0

\* the places of the id list a new batch has to wait for: the asset is in the
\* registry and has no resource yet
Awaited(ids) == {i \in 1..Len(ids) : reg[ids[i]].present /\ reg[ids[i]].res = 0}
\* the places of the id list whose id a is not in the registry
Missing(ids, a) == {i \in 1..Len(ids) : ids[i] = a /\ ~reg[a].present}

\* a step that registers an asset under id a while the component listens to add:a
AddHandled(a) == (AssetAdded(a) \/ AssetReadded(a)) /\ addL[a] > 0
\* a step that loads asset a while only add:a callbacks wait for it
AddedLoads(a, r) ==
    /\ LoadSucceeds(a, r)
    /\ loadL[a] # <<>> /\ \A i \in 1..Len(loadL[a]) : loadL[a][i] = 0

\* what such a load does: the resource is put in data.sources under the asset's
\* name; no batch finalizes, currentSource and the channel stay
InsertedOnly(a, r) ==
    /\ objs' = [objs EXCEPT ![sourcesRef][a] = r]
    /\ sourcesRef' = sourcesRef
    /\ doneCount' = doneCount /\ fin' = fin
    /\ currentSource' = currentSource
    /\ channel' = channel /\ chans' = chans

\* C15 as stated: a new batch waits only for the ids that are in the registry;
\* the add:<id> listener of a missing id is one-shot (gone once it has handled
\* a registration, which queues one ready callback); the load of the asset then
\* puts the resource in data.sources and does nothing else.
C15_AddedOneShot ==
    [][/\ \A l \in IdLists : LoadAudioSourceAssets(l) =>
              /\ cnt'[nb'] = Cardinality(Awaited(l))
              /\ \A a \in Assets : Missing(l, a) # {} => addL'[a] > 0
       /\ \A a \in Assets : AddHandled(a) =>
              /\ addL'[a] = 0
              /\ loadL'[a] = <<0>> /\ reg'[a].loading
       /\ \A a \in Assets, r \in Resources : AddedLoads(a, r) => InsertedOnly(a, r)]_vars

\* C15 as amended: a new batch waits only for the ids that are in the registry
\* and registers one add:<id> listener per place of a missing id; the listeners
\* stay registered: every registration of the id, the first and any later one,
\* queues one ready callback per listener and requests the load; the load then
\* puts the resource in data.sources and does nothing else.
C15_AddedEveryTime ==
    [][/\ \A l \in IdLists : LoadAudioSourceAssets(l) =>
              /\ cnt'[nb'] = Cardinality(Awaited(l))
              /\ \A a \in Assets : addL'[a] = addL[a] + Cardinality(Missing(l, a))
       /\ \A a \in Assets : AddHandled(a) =>
              /\ addL'[a] = addL[a]
              /\ loadL'[a] = [i \in 1..addL[a] |-> 0] /\ reg'[a].loading
              /\ InsertedOnly(a, SourcesNow[a])
       /\ \A a \in Assets, r \in Resources : AddedLoads(a, r) => InsertedOnly(a, r)]_vars

\* the latest step registered a new asset under an id whose earlier asset the
\* listener had already captured: the listener is still there and has queued
\* the ready callback again
C15_Witness ==
    \E a \in Assets :
        /\ last = Handler("onAdded", a)
        /\ reg[a].present /\ reg[a].removed /\ reg[a].loading
        /\ addL[a] > 0 /\ loadL[a] # <<>>
        /\ SourcesNow[a] # 0
        /\ \A b \in Started : a \notin pres[b]

\* a step made no call on the channel or the backend: the slot, the channels and
\* their parameters, currentSource and data.sources are what they were
NoChannelCall ==
    /\ calls' = <<>>
    /\ channel' = channel /\ chans' = chans /\ chanPar' = chanPar
    /\ currentSource' = currentSource /\ sourcesRef' = sourcesRef /\ objs' = objs

\* C16: a parameter set to the value it has (loop, volume, pitch, minDistance,
\* maxDistance, rollOffFactor, distanceModel, 3d) makes no call on the channel
\* and leaves the slot, the channel and currentSource as they were.
C16_SameValueNoCall ==
    [][/\ \A v \in ParamValues :
              /\ (v = params["loop"] /\ SetLoop(v)) => NoChannelCall
              /\ (v = params["volume"] /\ SetVolume(v)) => NoChannelCall
              /\ (v = params["pitch"] /\ SetPitch(v)) => NoChannelCall
              /\ (v = params["minDistance"] /\ SetMinDistance(v)) => NoChannelCall
              /\ (v = params["maxDistance"] /\ SetMaxDistance(v)) => NoChannelCall
              /\ (v = params["rollOffFactor"] /\ SetRollOffFactor(v)) => NoChannelCall
              /\ (v = params["distanceModel"] /\ SetDistanceModel(v)) => NoChannelCall
       /\ \A v \in BOOLEAN :
              (v = is3d /\ Set3d(v)) =>
                  /\ channel' = channel /\ chans' = chans /\ chanPar' = chanPar
                  /\ currentSource' = currentSource /\ calls' = calls]_vars

\* a positional channel is live, and the latest setter step made no
\* call although the channel carries a value that a setter had forwarded before
C16_Witness ==
    /\ channel # 0 /\ chans[channel].live /\ chans[channel].positional
    /\ initialized /\ currentSource # None
    /\ chanPar[channel] = params /\ params["loop"] = 2 /\ params["minDistance"] = 2
    /\ calls = <<>>

\* the step stored value v of parameter k and, if forwarded, made the one call
\* that sets it on the channel in the slot, and no call if not
Mirrored(k, v, forwarded) ==
    /\ params' = [params EXCEPT ![k] = v]
    /\ channel' = channel /\ chans' = chans
    /\ calls' = IF forwarded THEN <<[param |-> k, value |-> v]>> ELSE <<>>
    /\ chanPar' = IF forwarded THEN [chanPar EXCEPT ![channel][k] = v] ELSE chanPar

\* C18: a changed minDistance, maxDistance, rollOffFactor or distanceModel is
\* set on the channel in the slot iff that channel is positional; a changed
\* loop, volume or pitch is set on the channel in the slot whatever its mode;
\* with an empty slot no call is made.
C18_DistanceOnlyPositional ==
    [][\A v \in ParamValues :
          /\ (v # params["minDistance"] /\ SetMinDistance(v)) =>
                Mirrored("minDistance", v, channel # 0 /\ chans[channel].positional)
          /\ (v # params["maxDistance"] /\ SetMaxDistance(v)) =>
                Mirrored("maxDistance", v, channel # 0 /\ chans[channel].positional)
          /\ (v # params["rollOffFactor"] /\ SetRollOffFactor(v)) =>
                Mirrored("rollOffFactor", v, channel # 0 /\ chans[channel].positional)
          /\ (v # params["distanceModel"] /\ SetDistanceModel(v)) =>
                Mirrored("distanceModel", v, channel # 0 /\ chans[channel].positional)
          /\ (v # params["loop"] /\ SetLoop(v)) => Mirrored("loop", v, channel # 0)
          /\ (v # params["volume"] /\ SetVolume(v)) => Mirrored("volume", v, channel # 0)
          /\ (v # params["pitch"] /\ SetPitch(v)) => Mirrored("pitch", v, channel # 0)]_vars

\* a non-positional channel is live; minDistance is the only parameter that was
\* ever changed, and the channel has not been given it
C18_Witness ==
    /\ channel # 0 /\ chans[channel].live /\ ~chans[channel].positional
    /\ params = [k \in ParamNames |-> IF k = "minDistance" THEN 2 ELSE 1]
    /\ chanPar[channel]["minDistance"] = 0
    /\ calls = <<>>

\* a step of pause, unpause, onEnable or onDisable (called directly or by the
\* enabled flags), or a change event the component handles
KeepsSuspended ==
    \/ Pause \/ Unpause \/ OnEnable \/ OnDisable
    \/ \E v \in BOOLEAN : SetEnabled(v) \/ SetEntityEnabled(v)
    \/ \E a \in Assets, r \in Changed : changeL[a] > 0 /\ AssetChanged(a, r)

\* C17: pause, unpause, onEnable, onDisable, the parameter setters and the
\* restart after a change event leave the suspended flag of the live channel as
\* it was: the channel in the slot after the step is suspended iff the one
\* before was.
C17_SuspendedKept ==
    [][/\ (channel # 0 /\ channel' # 0 /\ KeepsSuspended) =>
              chans'[channel'].suspended = chans[channel].suspended
       /\ channel # 0 =>
              \A v \in ParamValues :
                  /\ onSetLoop(World, params["loop"], v).chans = chans
                  /\ onSetVolume(World, params["volume"], v).chans = chans
                  /\ onSetPitch(World, params["pitch"], v).chans = chans
                  /\ onSetMinDistance(World, params["minDistance"], v).chans = chans
                  /\ onSetMaxDistance(World, params["maxDistance"], v).chans = chans
                  /\ onSetRollOffFactor(World, params["rollOffFactor"], v).chans = chans
                  /\ onSetDistanceModel(World, params["distanceModel"], v).chans = chans]_vars

\* C20 as stated: a live channel is positional iff data['3d'] is set.
C20_ModeMatchesFlag ==
    \A c \in Chans : chans[c].live => chans[c].positional = is3d

\* C20 as amended: a channel is created in the mode of data['3d'], and the only
\* step after which a live channel and the flag disagree when they agreed before
\* is a change of the flag made while the component or its entity is disabled,
\* or the system is not initialized, or there is no current source; the channel
\* then keeps its old mode.
C20_ModeMatchesUnlessSetWhileOff ==
    [][/\ \A c \in Chans : CreatedAt(c) => chans'[c].positional = is3d'
       /\ (C20_ModeMatchesFlag /\ ~C20_ModeMatchesFlag') =>
              /\ is3d' # is3d
              /\ ~(enabled /\ entityEnabled /\ initialized /\ currentSource # None)
              /\ channel' = channel /\ chans' = chans]_vars

\* the latest step changed data['3d'] while the component was disabled: the
\* paused channel in the slot is still of the old mode
C20_Witness ==
    /\ last = Handler("onSet3d", None)
    /\ ~enabled /\ initialized /\ entityEnabled
    /\ channel # 0 /\ chans[channel].live /\ chans[channel].paused
    /\ chans[channel].positional # is3d

\* C19: once every batch has finalized, an asset of the current asset list that
\* a batch resolved (and that is still in the registry) has an entry in
\* data.sources and carries the component's change and remove listeners.
C19_RetainedAssetKept ==
    (nb > 0 /\ \A b \in Started : fin[b].done) =>
        \A i \in 1..Len(assets) :
            (Resolved(assets[i]) /\ reg[assets[i]].res # 0) =>
                /\ SourcesNow[assets[i]] # 0
                /\ changeL[assets[i]] = 1 /\ removeL[assets[i]] = 1
====
